---- MODULE Spec2Model ----
(***************************************************************************)
(* Model of src/app.py (Audio_cropper): the click detector, the consensus  *)
(* aggregator, the segment splitter and the two Flask handlers that drive  *)
(* them (upload_files, process_batch) over the module's global state.      *)
(*                                                                         *)
(* Times.  Python floats holding seconds are fixed-point integers counted  *)
(* in ticks, SubMs ticks to the millisecond.  pydub positions and lengths  *)
(* are whole milliseconds.                                                 *)
(*                                                                         *)
(* Optional values.  Python's None is the empty tuple and a present value  *)
(* v is <<v>>, so that a missing bound can be compared with a number.      *)
(***************************************************************************)
EXTENDS Integers, Sequences, FiniteSets, TLC

VARIABLES batch_data, spectrogram_cache, disk, now, uploads, up, pr, call

vars == <<batch_data, spectrogram_cache, disk, now, uploads, up, pr, call>>

(***************************************************************************)
(* Units and program constants                                             *)
(***************************************************************************)
\* resolution of the fixed-point seconds: ticks per millisecond
SubMs == 2

\* start_time * 1000, end_time * 1000: milliseconds per second
MsPerSecond == 1000

\* librosa.load(audio_path, sr=22050)
sr == 22050

\* melspectrogram(..., hop_length=512, ...)
hop_length == 512

Ms(x) == x * SubMs

\* round(x, 2): one hundredth of a second, in ticks
Centi == Ms(MsPerSecond) \div 100

None == <<>>

Some(v) == <<v>>

Val(o) == o[1]

Min2(a, b) == IF b < a THEN b ELSE a

Max2(a, b) == IF b > a THEN b ELSE a

Abs(x) == IF x < 0 THEN -x ELSE x

\* Python's round(q, 2) of the quotient q = total / n (n > 0): the nearest
\* hundredth, a tie going to the even hundredth.
Round2(total, n) ==
    LET d == n * Centi
        q == total \div d
        r == total - q * d
    IN  IF 2 * r < d THEN q * Centi
        ELSE IF 2 * r > d THEN (q + 1) * Centi
        ELSE IF q % 2 = 0 THEN q * Centi ELSE (q + 1) * Centi

RECURSIVE SumSeq(_)
SumSeq(s) == IF s = <<>> THEN 0 ELSE Head(s) + SumSeq(Tail(s))

(***************************************************************************)
(* Spectral transform: the time axis                                       *)
(***************************************************************************)
\* librosa.frames_to_time(i, sr=sr, hop_length=512) = i * hop_length / sr
\* seconds, in ticks (floor); the two-step form keeps the products small.
frames_to_time(i) ==
    LET ms == i * hop_length * MsPerSecond
    IN  (ms \div sr) * SubMs + ((ms % sr) * SubMs) \div sr

\* number of spectrogram frames of a recording of `ms` milliseconds:
\* 1 + samples // hop_length (centred frames), samples = ms * sr / 1000
n_frames(ms) == 1 + ((ms * sr) \div MsPerSecond) \div hop_length

time_frames_of(ms) == [i \in 1..n_frames(ms) |-> frames_to_time(i - 1)]

(***************************************************************************)
(* Click detector                                                          *)
(***************************************************************************)
\* of two indices l < r, the one whose element is nearer to t, l on a tie
Nearer(tf, t, l, r) == IF Abs(tf[r] - t) < Abs(tf[l] - t) THEN r ELSE l

\* index in lo..hi of the first element of tf nearest to t
RECURSIVE ArgMinIn(_, _, _, _)
ArgMinIn(tf, t, lo, hi) ==
    IF lo = hi THEN lo
    ELSE Nearer(tf, t, ArgMinIn(tf, t, lo, (lo + hi) \div 2),
                       ArgMinIn(tf, t, (lo + hi) \div 2 + 1, hi))

\* np.argmin(np.abs(time_frames - t)): 0-based index of the first minimum
argmin_abs(tf, t) == ArgMinIn(tf, t, 1, Len(tf)) - 1

\* What the OpenCV pipeline (normalize, blur, Otsu, opening, findContours,
\* boundingRect of the largest contour) can report for a region of interest
\* `width` columns wide: an exception, no contour, or a bounding box whose
\* columns [x, x + w) lie inside the image.
CvOutcomes(width) ==
    {[kind |-> "raise", x |-> 0, w |-> 0], [kind |-> "none", x |-> 0, w |-> 0]}
    \cup {c \in [kind : {"rect"}, x : 0..(width - 1), w : 1..width] :
             c.x + c.w <= width}

\* "Ensure reasonable bounds": start into [4.5, 6.0]
ClampStartBad(t) == Min2(t, Ms(6000))

ClampStart(t) == Max2(Ms(4500), Min2(t, Ms(6000)))

\* end into [start + 0.5, 7.5]
ClampEnd(s, t) == Max2(s + Ms(500), Min2(t, Ms(7500)))

\* lines 81-118, with the two indices found
DetectBetween(time_frames, cv, start_time, end_time, start_idx, end_idx) ==
    IF start_idx >= end_idx THEN <<None, None>>
    ELSE IF cv.kind = "raise"
         THEN <<Some(start_time), Some(end_time)>>       \* except branch
    ELSE IF cv.kind = "none"
         THEN <<Some(start_time), Some(end_time)>>       \* not contours
    ELSE IF start_idx + cv.x + cv.w >= Len(time_frames)
         THEN <<Some(start_time), Some(end_time)>>       \* IndexError
    ELSE
      LET detected_start == ClampStart(time_frames[start_idx + cv.x + 1])
      IN  <<Some(detected_start),
            Some(ClampEnd(detected_start,
                          time_frames[start_idx + cv.x + cv.w + 1]))>>

detect_switch_noise(time_frames, cv, start_time, end_time) ==
    IF Len(time_frames) = 0
    THEN <<Some(start_time), Some(end_time)>>      \* argmin raises: except
    ELSE DetectBetween(time_frames, cv, start_time, end_time,
                       argmin_abs(time_frames, start_time),
                       argmin_abs(time_frames, end_time))

\* width of the region of interest mel_spec_db[:, start_idx:end_idx]
roi_width(time_frames, start_time, end_time) ==
    IF Len(time_frames) = 0 THEN 0
    ELSE Max2(0, argmin_abs(time_frames, end_time)
                 - argmin_abs(time_frames, start_time))

\* the defaults start_time=5.0, end_time=7.0
CoarseStart == Ms(5000)

CoarseEnd == Ms(7000)

(***************************************************************************)
(* Consensus aggregator                                                    *)
(***************************************************************************)
\* [interval[k] for interval in intervals if interval[k] is not None]
RECURSIVE Present(_, _)
Present(intervals, k) ==
    IF intervals = <<>> THEN <<>>
    ELSE (IF Head(intervals)[k] # None
          THEN <<Val(Head(intervals)[k])>> ELSE <<>>)
         \o Present(Tail(intervals), k)

DefaultInterval == <<Ms(5500), Ms(6500)>>

\* round(np.mean(xs), 2)
MeanRounded(xs) == Round2(SumSeq(xs), Len(xs))

calculate_weighted_average_interval(intervals) ==
    IF intervals = <<>> THEN DefaultInterval
    ELSE
      LET starts == Present(intervals, 1)
          ends   == Present(intervals, 2)
      IN  IF starts = <<>> \/ ends = <<>> THEN DefaultInterval
          ELSE <<MeanRounded(starts), MeanRounded(ends)>>

(***************************************************************************)
(* Segment splitter                                                        *)
(*                                                                         *)
(* A pydub AudioSegment is a sequence of runs <<lo, hi>>: the milliseconds *)
(* lo .. hi-1 of the decoded file, in order.                               *)
(***************************************************************************)
RECURSIVE SegLen(_)
SegLen(seg) ==
    IF seg = <<>> THEN 0 ELSE (Head(seg)[2] - Head(seg)[1]) + SegLen(Tail(seg))

\* the milliseconds at positions [s, e) of seg, 0 <= s and 0 <= e
RECURSIVE Cut(_, _, _)
Cut(seg, s, e) ==
    IF seg = <<>> THEN <<>>
    ELSE LET p == Head(seg)
             n == p[2] - p[1]
             a == Max2(s, 0)
             b == Min2(e, n)
         IN  (IF a < b THEN << <<p[1] + a, p[1] + b>> >> ELSE <<>>)
             \o Cut(Tail(seg), s - n, e - n)

\* AudioSegment.__getitem__(slice(start, stop)) for positions >= 0: a missing
\* start is 0, a missing stop is len(seg), and both are cut down to len(seg).
GetSlice(seg, start, stop) ==
    LET n == SegLen(seg)
        s == Min2(IF start = None THEN 0 ELSE Val(start), n)
        e == Min2(IF stop = None THEN n ELSE Val(stop), n)
    IN  Cut(seg, s, e)

\* int(t * 1000): whole milliseconds, truncated toward zero
ToMs(t) == IF t >= 0 THEN t \div SubMs ELSE -((-t) \div SubMs)

before_switch(audio, start_time) == GetSlice(audio, None, Some(ToMs(start_time)))

after_switch_bad(audio, end_time) == GetSlice(audio, Some(ToMs(end_time) + 1), None)

after_switch(audio, end_time) == GetSlice(audio, Some(ToMs(end_time)), None)

cropped_audio(audio, start_time, end_time) ==
    before_switch(audio, start_time) \o after_switch(audio, end_time)

mid_point_bad(cropped) == (SegLen(cropped) + 1) \div 2

mid_point(cropped) == SegLen(cropped) \div 2

clockwise(cropped) == GetSlice(cropped, None, Some(mid_point(cropped)))

anticlockwise(cropped) == GetSlice(cropped, Some(mid_point(cropped)), None)

\* os.path.splitext(filename)[0]
base_name(filename) == filename.stem

cw_path(filename) == <<"Clockwise", base_name(filename), "_cw.wav">>

acw_path(filename) == <<"Anticlockwise", base_name(filename), "_acw.wav">>

\* audio_path names a file of the upload folder `files` (path -> length in
\* ms); output_dir maps each path written so far to what was written.  A
\* missing file makes from_wav / from_mp3 raise, which the except turns into
\* False.  Returns the success flag and the output directory afterwards.
crop_and_split_audio(files, audio_path, start_time, end_time, output_dir, filename) ==
    IF audio_path \notin DOMAIN files
    THEN [ok |-> FALSE, out |-> output_dir]
    ELSE
      LET n       == files[audio_path]
          audio   == IF n > 0 THEN << <<0, n>> >> ELSE <<>>
          cropped == cropped_audio(audio, start_time, end_time)
          cw      == [src |-> audio_path, audio |-> clockwise(cropped)]
          acw     == [src |-> audio_path, audio |-> anticlockwise(cropped)]
      IN  [ok  |-> TRUE,
           out |-> (cw_path(filename) :> cw) @@ (acw_path(filename) :> acw)
                   @@ output_dir]

(***************************************************************************)
(* Dictionaries: a Python dict is the sequence of its items in insertion   *)
(* order; assigning to a key that is present replaces its value in place.  *)
(***************************************************************************)
DictKeys(d) == {d[i].key : i \in 1..Len(d)}

DictSet(d, k, v) ==
    IF k \in DictKeys(d)
    THEN [i \in 1..Len(d) |-> IF d[i].key = k THEN [key |-> k, val |-> v] ELSE d[i]]
    ELSE Append(d, [key |-> k, val |-> v])

(***************************************************************************)
(* Requests                                                                *)
(***************************************************************************)
\* number of upload worker threads of the server
Uploaders == 1..2

\* most files in one upload request
MaxFiles == 2

\* most upload requests in a run
MaxUploads == 2

\* most process_batch requests in a run
MaxRuns == 1

\* last value of the wall clock, in seconds
MaxClock == 1

ALLOWED_EXTENSIONS == {"wav", "mp3", "flac", "aac"}

\* the extensions in the samples are lower case already
allowed_file(name) == name.ext \in ALLOWED_EXTENSIONS

\* werkzeug's secure_filename on the sample names: white space becomes "_"
secure_filename(name) ==
    [stem |-> IF name.stem = "b 1" THEN "b_1" ELSE name.stem, ext |-> name.ext]

\* The files a browser may send: the name, the length of the recording in
\* milliseconds, and whether librosa can decode it.
SampleFiles ==
    { [name |-> [stem |-> "a", ext |-> "wav"], ms |-> 12000, corrupt |-> FALSE],
      [name |-> [stem |-> "b 1", ext |-> "wav"], ms |-> 3000, corrupt |-> FALSE],
      [name |-> [stem |-> "c", ext |-> "wav"], ms |-> 12000, corrupt |-> TRUE],
      [name |-> [stem |-> "n", ext |-> "txt"], ms |-> 12000, corrupt |-> FALSE] }

\* the contour results drawn for an uploaded file
CvSample(width) ==
    {c \in CvOutcomes(width) :
        c.kind = "none" \/ (c.kind = "rect" /\ c.x = width \div 2 /\ c.w = 1)}

\* the (start_time, end_time) pairs a reviewer may post to /process_batch
SampleRequests ==
    { <<Ms(5500), Ms(6500)>>, <<Ms(7000), Ms(5000)>>, <<Ms(11000), Ms(13000)>> }

NoResp == [status |-> 0]

UpIdle ==
    [pc |-> "idle", gen |-> 0, left |-> 0, results |-> <<>>, intervals |-> <<>>,
     resp |-> NoResp]

PrIdle ==
    [pc |-> "idle", runs |-> 0, start_time |-> 0, end_time |-> 0,
     out |-> <<>>, it |-> [live |-> TRUE, pos |-> 1, used |-> 0, obj |-> <<>>],
     processed |-> <<>>, failed |-> <<>>, resp |-> NoResp]

Idle == [op |-> "idle"]

MainInit ==
    /\ batch_data = <<>>
    /\ spectrogram_cache = <<>>
    /\ disk = [uploads |-> <<>>, spectrograms |-> {}]
    /\ now = 0
    /\ uploads = 0
    /\ up = [t \in Uploaders |-> UpIdle]
    /\ pr = PrIdle

Init == MainInit /\ call = Idle

Resting(pc) == pc \in {"idle", "done"}

\* no other request is in progress (the sequential schedule)
Quiet(t) ==
    /\ \A u \in Uploaders \ {t} : Resting(up[u].pc)
    /\ t # 0 => Resting(pr.pc)

(***************************************************************************)
(* upload_files                                                            *)
(***************************************************************************)
\* lines 194-199: the request goes to the first free worker and is read;
\* with no file it is answered 400.
UploadBegin(t, exclusive) ==
    /\ Resting(up[t].pc)
    /\ \A u \in Uploaders : u < t => ~Resting(up[u].pc)
    /\ uploads < MaxUploads
    /\ exclusive => Quiet(t)
    /\ uploads' = uploads + 1
    /\ \E n \in 0..MaxFiles :
         up' = [up EXCEPT ![t] =
                  IF n = 0
                  THEN [UpIdle EXCEPT !.pc = "done", !.gen = uploads + 1,
                          !.resp = [status |-> 400, error |-> "No files selected"]]
                  ELSE [UpIdle EXCEPT !.pc = "clear", !.gen = uploads + 1,
                          !.left = n]]
    /\ UNCHANGED <<batch_data, spectrogram_cache, disk, now, pr, call>>

\* A running `for ... in batch_data.items()` keeps the dict object it began
\* with: once the global is rebound nobody else can reach that object.
Detached(p) ==
    IF p.pc = "loop" /\ p.it.live
    THEN [p EXCEPT !.it.live = FALSE, !.it.obj = batch_data]
    ELSE p

\* lines 201-211: rebind both globals to fresh dicts, empty both folders.
UploadClear(t) ==
    /\ up[t].pc = "clear"
    /\ batch_data' = <<>>
    /\ spectrogram_cache' = <<>>
    /\ pr' = Detached(pr)
    /\ disk' = [uploads |-> <<>>, spectrograms |-> {}]
    /\ up' = [up EXCEPT ![t].pc = "files"]
    /\ UNCHANGED <<now, uploads, call>>

unique_filename_of(timestamp, filename) == <<timestamp, filename>>

\* len(time_frames) * (time_frames[1] - time_frames[0]) if len > 1 else 12.0
duration_of(n) ==
    IF n > 1 THEN n * (frames_to_time(1) - frames_to_time(0)) ELSE Ms(12000)

\* lines 231-255: the entry is stored, then reported
StoreEntry(t, filename, unique_filename, saved, n, interval) ==
    LET file_data ==
          [filename |-> filename,
           unique_filename |-> unique_filename,
           file_path |-> unique_filename,
           detected_interval |-> interval,
           duration |-> duration_of(n),
           gen |-> up[t].gen]
    IN  /\ disk' = [uploads |-> saved,
                    spectrograms |-> disk.spectrograms \cup {unique_filename}]
        /\ batch_data' = DictSet(batch_data, unique_filename, file_data)
        /\ spectrogram_cache' =
             DictSet(spectrogram_cache, unique_filename,
                     [frames |-> n, sr |-> sr])
        /\ IF interval[1] = None
           THEN \* round(None, 2) raises TypeError: the request ends in a 500
                up' = [up EXCEPT
                  ![t].intervals = Append(@, interval),
                  ![t].pc = "done",
                  ![t].resp = [status |-> 500, error |-> "TypeError"]]
           ELSE up' = [up EXCEPT
                  ![t].intervals = Append(@, interval),
                  ![t].left = @ - 1,
                  ![t].results = Append(@,
                    [filename |-> filename,
                     unique_filename |-> unique_filename,
                     detected_start |-> Round2(Val(interval[1]), 1),
                     detected_end |-> Round2(Val(interval[2]), 1),
                     duration |-> Round2(file_data.duration, 1)])]

\* generate_mel_spectrogram of each sample file: None when librosa cannot
\* decode it, else the time axis (the decibel matrix is what cv stands for)
MelSpectrograms ==
    [f \in SampleFiles |->
        IF f.corrupt THEN None ELSE Some(time_frames_of(f.ms))]

\* line 229: what detect_switch_noise(mel_spec_db, time_frames) can return
\* for each decodable sample file, over the contour results drawn for it
Detections ==
    [f \in {g \in SampleFiles : ~g.corrupt} |->
        {detect_switch_noise(Val(MelSpectrograms[f]), cv, CoarseStart, CoarseEnd) :
            cv \in CvSample(roi_width(Val(MelSpectrograms[f]),
                                      CoarseStart, CoarseEnd))}]

\* lines 215-229: the file is saved under its timestamped name, analysed
\* and, when it has a spectrogram, stored
SaveAndAnalyse(t, f, filename, unique_filename, saved) ==
    IF MelSpectrograms[f] = None
    THEN /\ disk' = [disk EXCEPT !.uploads = saved]
         /\ up' = [up EXCEPT ![t].left = @ - 1]
         /\ UNCHANGED <<batch_data, spectrogram_cache>>
    ELSE \E interval \in Detections[f] :
            StoreEntry(t, filename, unique_filename, saved,
                       Len(Val(MelSpectrograms[f])), interval)

\* lines 213-255, one turn of the loop over the request's files.
UploadFile(t) ==
    /\ up[t].pc = "files"
    /\ up[t].left > 0
    /\ \E f \in SampleFiles :
         IF ~allowed_file(f.name)
         THEN /\ up' = [up EXCEPT ![t].left = @ - 1]
              /\ UNCHANGED <<batch_data, spectrogram_cache, disk>>
         ELSE SaveAndAnalyse(t, f, secure_filename(f.name),
                unique_filename_of(now, secure_filename(f.name)),
                (unique_filename_of(now, secure_filename(f.name)) :> f.ms)
                    @@ disk.uploads)
    /\ UNCHANGED <<now, uploads, pr, call>>

\* lines 257-271.  batch_keys and cache_keys record the two globals as they
\* are when the response is built.
UploadRespond(t) ==
    /\ up[t].pc = "files"
    /\ up[t].left = 0
    /\ up' = [up EXCEPT
         ![t].pc = "done",
         ![t].results = <<>>,
         ![t].resp =
           IF up[t].results = <<>>
           THEN [status |-> 400, error |-> "No valid audio files processed"]
           ELSE [status |-> 200,
                 files |-> up[t].results,
                 weighted_average |->
                   calculate_weighted_average_interval(up[t].intervals),
                 total_files |-> Len(up[t].results),
                 batch_keys |-> [i \in 1..Len(batch_data) |-> batch_data[i].key],
                 cache_keys |-> DictKeys(spectrogram_cache)]]
    /\ UNCHANGED <<batch_data, spectrogram_cache, disk, now, uploads, pr, call>>

\* datetime.now() moves on
Tick ==
    /\ now < MaxClock
    /\ now' = now + 1
    /\ UNCHANGED <<batch_data, spectrogram_cache, disk, uploads, up, pr, call>>

(***************************************************************************)
(* process_batch                                                           *)
(***************************************************************************)
\* lines 307-322: parameters, a fresh output directory, the iterator.
ProcessBegin(exclusive) ==
    /\ Resting(pr.pc)
    /\ pr.runs < MaxRuns
    /\ exclusive => Quiet(0)
    /\ \/ pr' = [PrIdle EXCEPT !.pc = "done", !.runs = pr.runs + 1,
                   !.resp = [status |-> 400, error |-> "Invalid parameters"]]
       \/ \E req \in SampleRequests :
            pr' = [PrIdle EXCEPT !.pc = "loop", !.runs = pr.runs + 1,
                     !.start_time = req[1], !.end_time = req[2],
                     !.it = [live |-> TRUE, pos |-> 1, used |-> Len(batch_data),
                             obj |-> <<>>]]
    /\ UNCHANGED <<batch_data, spectrogram_cache, disk, now, uploads, up, call>>

\* the dict object the loop iterates
Iterated(p) == IF p.it.live THEN batch_data ELSE p.it.obj

\* lines 322-334, one turn of the loop: the iterator raises RuntimeError
\* when the dict's size differs from its size at the start of the loop.
ProcessFile ==
    /\ pr.pc = "loop"
    /\ LET d == Iterated(pr)
       IN  IF Len(d) # pr.it.used
           THEN pr' = [pr EXCEPT !.pc = "done",
                         !.resp = [status |-> 500, error |-> "RuntimeError"]]
           ELSE /\ pr.it.pos <= Len(d)
                /\ LET file_data == d[pr.it.pos].val
                       r == crop_and_split_audio(disk.uploads, file_data.file_path,
                                                 pr.start_time, pr.end_time,
                                                 pr.out, file_data.filename)
                   IN  pr' = [pr EXCEPT
                         !.it.pos = @ + 1,
                         !.out = r.out,
                         !.processed = IF r.ok THEN Append(@, file_data.filename)
                                       ELSE @,
                         !.failed = IF r.ok THEN @
                                    ELSE Append(@, file_data.filename)]
    /\ UNCHANGED <<batch_data, spectrogram_cache, disk, now, uploads, up, call>>

\* lines 336-356: every file under output_dir goes into the ZIP, the
\* directory is removed and the tallies are reported.
ProcessZip ==
    /\ pr.pc = "loop"
    /\ Len(Iterated(pr)) = pr.it.used
    /\ pr.it.pos > Len(Iterated(pr))
    /\ pr' = [pr EXCEPT
         !.pc = "done",
         !.out = <<>>,
         !.resp = [status |-> 200,
                   zip |-> pr.out,
                   processed_files |-> Len(pr.processed),
                   failed_files |-> Len(pr.failed)]]
    /\ UNCHANGED <<batch_data, spectrogram_cache, disk, now, uploads, up, call>>

Next ==
    \/ \E t \in Uploaders : UploadBegin(t, FALSE)
    \/ \E t \in Uploaders : UploadClear(t)
    \/ \E t \in Uploaders : UploadFile(t)
    \/ \E t \in Uploaders : UploadRespond(t)
    \/ Tick
    \/ ProcessBegin(FALSE)
    \/ ProcessFile
    \/ ProcessZip

\* the threaded server: requests interleave
Spec == Init /\ [][Next]_vars

NextSeq ==
    \/ \E t \in Uploaders : UploadBegin(t, TRUE)
    \/ \E t \in Uploaders : UploadClear(t)
    \/ \E t \in Uploaders : UploadFile(t)
    \/ \E t \in Uploaders : UploadRespond(t)
    \/ Tick
    \/ ProcessBegin(TRUE)
    \/ ProcessFile
    \/ ProcessZip

\* one request at a time, each run to its response
SpecSeq == Init /\ [][NextSeq]_vars

(***************************************************************************)
(* The three pure functions on their own: one call is applied to inputs    *)
(* drawn from bounded sets and its arguments and result are kept in call.  *)
(***************************************************************************)
MainUnchanged ==
    UNCHANGED <<batch_data, spectrogram_cache, disk, now, uploads, up, pr>>

\* most frames of a drawn time axis
MaxFrames == 5

\* frame times a drawn axis is made of
AxisTimes ==
    {Ms(0), Ms(4000), Ms(4400), Ms(4900), Ms(5200), Ms(5900), Ms(6200), Ms(7000),
     Ms(7600), Ms(8000)}

RECURSIVE SortedSeq(_)
SortedSeq(S) ==
    IF S = {} THEN <<>>
    ELSE LET m == CHOOSE x \in S : \A y \in S : x <= y
         IN  <<m>> \o SortedSeq(S \ {m})

\* the strictly increasing time axes of at most MaxFrames frames
SampleAxes == {SortedSeq(S) : S \in {T \in SUBSET AxisTimes : Cardinality(T) <= MaxFrames}}

DetectCall ==
    /\ call = Idle
    /\ \E axis \in SampleAxes :
         \E cv \in CvOutcomes(roi_width(axis, CoarseStart, CoarseEnd)) :
           call' = [op |-> "detect", time_frames |-> axis, cv |-> cv,
                    ret |-> detect_switch_noise(axis, cv, CoarseStart, CoarseEnd)]
    /\ MainUnchanged

SpecDetect == Init /\ [][DetectCall]_vars

\* most entries of a drawn list of intervals
MaxIntervals == 3

SampleEntries ==
    {None, Some(Ms(5400)), Some(Ms(5500)), Some(Ms(5600))}
    \X {None, Some(Ms(6200)), Some(Ms(6400)), Some(Ms(6600))}

SampleIntervalLists == UNION {[1..n -> SampleEntries] : n \in 0..MaxIntervals}

AggregateCall ==
    /\ call = Idle
    /\ \E intervals \in SampleIntervalLists :
         call' = [op |-> "aggregate", intervals |-> intervals,
                  ret |-> calculate_weighted_average_interval(intervals)]
    /\ MainUnchanged

SpecAggregate == Init /\ [][AggregateCall]_vars

\* longest drawn audio buffer, in milliseconds
MaxAudioMs == 6

\* the drawn start and end times: every tick from 0 to past the buffer's end
SplitTimes == 0..Ms(MaxAudioMs + 1)

SplitName == [stem |-> "a", ext |-> "wav"]

SplitCall ==
    /\ call = Idle
    /\ \E n \in 0..MaxAudioMs, st \in SplitTimes, et \in SplitTimes :
         call' = [op |-> "crop", n |-> n, start_time |-> st, end_time |-> et,
                  cropped |-> cropped_audio(IF n > 0 THEN << <<0, n>> >> ELSE <<>>,
                                            st, et),
                  ret |-> crop_and_split_audio(("a.wav" :> n), "a.wav", st, et,
                                               <<>>, SplitName)]
    /\ MainUnchanged

SpecSplit == Init /\ [][SplitCall]_vars

(***************************************************************************)
(* Properties                                                              *)
(***************************************************************************)
\* the milliseconds of a segment, one by one
RECURSIVE Expand(_)
Expand(seg) ==
    IF seg = <<>> THEN <<>>
    ELSE [i \in 1..(Head(seg)[2] - Head(seg)[1]) |-> Head(seg)[1] + i - 1]
         \o Expand(Tail(seg))

\* an interval the splitter is to refuse for a buffer of `ms` milliseconds
InvalidInterval(start_time, end_time, ms) ==
    \/ start_time >= end_time
    \/ start_time < 0
    \/ end_time > Ms(ms)

\* C1: the splitter rejects every interval with start >= end or a bound
\* outside [0, buffer length]: while process_batch runs, no artifact has been
\* written from a file for which the posted interval is invalid, and no such
\* file is counted as processed.
C1_InvalidIntervalRejected ==
    pr.pc = "loop" =>
        \A p \in DOMAIN pr.out :
            /\ pr.out[p].src \in DOMAIN disk.uploads
            /\ ~InvalidInterval(pr.start_time, pr.end_time,
                                disk.uploads[pr.out[p].src])

\* C2: with the default coarse window detect_switch_noise returns either
\* (None, None) or a pair with start < end, start >= 4.5 s and end <= 7.5 s.
C2_DetectionWithinBounds ==
    call.op = "detect" =>
        \/ call.ret = <<None, None>>
        \/ /\ call.ret[1] # None
           /\ call.ret[2] # None
           /\ Val(call.ret[1]) < Val(call.ret[2])
           /\ Val(call.ret[1]) >= Ms(4500)
           /\ Val(call.ret[2]) <= Ms(7500)

\* C2 witness: a bounding box whose left edge lies before 4.5 s was clamped.
C2_Witness ==
    /\ call.op = "detect"
    /\ call.cv.kind = "rect"
    /\ call.ret # <<None, None>>
    /\ call.time_frames[argmin_abs(call.time_frames, CoarseStart) + call.cv.x + 1]
         < Ms(4500)
    /\ call.ret[1] = Some(Ms(4500))
    /\ call.ret[2] = Some(Ms(7500))

Valid(entry) == entry[1] # None /\ entry[2] # None

\* the result is a hundredth nearest to the mean of xs
NearestHundredth(result, xs) ==
    /\ result % Centi = 0
    /\ 2 * Abs(result * Len(xs) - SumSeq(xs)) <= Len(xs) * Centi

\* C3: calculate_weighted_average_interval returns exactly (5.5, 6.5) for an
\* empty list and for a list with no valid interval (an entry with either
\* bound missing is invalid); for a list of valid pairs it returns the mean
\* of the starts and the mean of the ends, each rounded to 2 decimals.
C3_DefaultOrRoundedMean ==
    call.op = "aggregate" =>
        LET xs == call.intervals
        IN  /\ (\A i \in 1..Len(xs) : ~Valid(xs[i])) => call.ret = DefaultInterval
            /\ (xs # <<>> /\ \A i \in 1..Len(xs) : Valid(xs[i])) =>
                 /\ NearestHundredth(call.ret[1], [i \in 1..Len(xs) |-> Val(xs[i][1])])
                 /\ NearestHundredth(call.ret[2], [i \in 1..Len(xs) |-> Val(xs[i][2])])

\* C4: an entry with either bound missing contributes to neither mean: the
\* consensus of a list equals the consensus of its entries that have both
\* bounds.
C4_WholeEntryDiscarded ==
    call.op = "aggregate" =>
        call.ret = calculate_weighted_average_interval(SelectSeq(call.intervals, Valid))

\* C5: a degenerate window for one file never aborts the upload: a finished
\* upload_files request one of whose detections was (None, None) has answered
\* with success, and the entries it stored carry an interval (the coarse
\* window for that file), not None.
C5_DegenerateWindowTolerated ==
    \A t \in Uploaders :
        (up[t].pc = "done"
         /\ \E i \in 1..Len(up[t].intervals) : up[t].intervals[i] = <<None, None>>)
        => /\ up[t].resp.status = 200
           /\ \A i \in 1..Len(batch_data) :
                batch_data[i].val.gen = up[t].gen
                => batch_data[i].val.detected_interval # <<None, None>>

\* C6: the entries the splitter iterates all come from one single upload.
C6_SingleGeneration ==
    pr.pc = "loop" =>
        \A i, j \in 1..Len(Iterated(pr)) :
            Iterated(pr)[i].val.gen = Iterated(pr)[j].val.gen

\* C7: the first half has floor(L/2) units and the second L - floor(L/2),
\* they are contiguous and non-overlapping (the first followed by the second
\* is the post-excision buffer), and the second is the longer by at most 1.
C7_HalvesPartition ==
    call.op = "crop" =>
        LET L      == SegLen(call.cropped)
            first  == call.ret.out[cw_path(SplitName)].audio
            second == call.ret.out[acw_path(SplitName)].audio
        IN  /\ SegLen(first) = L \div 2
            /\ SegLen(second) = L - L \div 2
            /\ Expand(first) \o Expand(second) = Expand(call.cropped)
            /\ SegLen(second) - SegLen(first) \in {0, 1}

\* C7 witness: a post-excision buffer of odd length has been split and the
\* second half took the extra unit.
C7_Witness ==
    /\ call.op = "crop"
    /\ SegLen(call.cropped) % 2 = 1
    /\ SegLen(call.cropped) >= 3
    /\ SegLen(call.ret.out[acw_path(SplitName)].audio)
         = SegLen(call.ret.out[cw_path(SplitName)].audio) + 1

\* C8: for cut points 0 <= a < b <= N the excised buffer is the original
\* units [0, a) followed by the original units [b, N): N - (b - a) units.
C8_ExciseRemovesInterval ==
    call.op = "crop" =>
        LET a == ToMs(call.start_time)
            b == ToMs(call.end_time)
        IN  (0 <= a /\ a < b /\ b <= call.n) =>
              /\ SegLen(call.cropped) = call.n - (b - a)
              /\ Expand(call.cropped) =
                   [i \in 1..a |-> i - 1] \o [i \in 1..(call.n - b) |-> b + i - 1]

\* C8 witness: an interval strictly inside the buffer has been excised, with
\* audio left on both sides.
C8_Witness ==
    /\ call.op = "crop"
    /\ 0 < ToMs(call.start_time)
    /\ ToMs(call.start_time) < ToMs(call.end_time)
    /\ ToMs(call.end_time) < call.n
    /\ Len(call.cropped) = 2

\* C9: a process_batch run in which no file failed packages two artifacts
\* for every file it counts as processed.
C9_TwoArtifactsPerFile ==
    (pr.pc = "done" /\ pr.resp.status = 200 /\ pr.resp.failed_files = 0) =>
        Cardinality(DOMAIN pr.resp.zip) = 2 * pr.resp.processed_files

\* C10: after a successful upload_files request the listed files have
\* pairwise distinct keys, each has its entry in batch_data, total_files is
\* the number of batch_data entries, and batch_data and spectrogram_cache
\* have the same keys.
C10_ReportedFilesHaveEntries ==
    \A t \in Uploaders :
        (up[t].pc = "done" /\ up[t].resp.status = 200) =>
            LET r == up[t].resp
            IN  /\ \A i, j \in 1..Len(r.files) :
                     i # j => r.files[i].unique_filename # r.files[j].unique_filename
                /\ \A i \in 1..Len(r.files) :
                     \E k \in 1..Len(r.batch_keys) :
                         r.batch_keys[k] = r.files[i].unique_filename
                /\ r.total_files = Len(r.batch_keys)
                /\ {r.batch_keys[k] : k \in 1..Len(r.batch_keys)} = r.cache_keys

====
